---- MODULE Spec2Model ----
(***************************************************************************)
(* Model of homework.py: a bot that polls the homework-review API every    *)
(* RETRY_PERIOD seconds and relays status changes and failures to one      *)
(* Telegram chat.                                                          *)
(*                                                                         *)
(* Texts.  Python strings that the program builds with f-strings are       *)
(* modelled as records [pre, tmpl, a1, a2, q]: the format template, its    *)
(* arguments, an optional prefix put in front by main() and whether the    *)
(* text went through repr() (str() of a KeyError).  Two texts are equal    *)
(* exactly when the records are.  The Russian literals of the source are   *)
(* rendered in English.                                                    *)
(***************************************************************************)
EXTENDS Integers, Sequences, FiniteSets, TLC

(***************************************************************************)
(* Bounds of the model                                                     *)
(***************************************************************************)
\* number of cycles of the main loop that are explored
MaxCycles == 3
\* longest "homeworks" list handed to check_response in FnSpec
MaxItems == 2

(***************************************************************************)
(* Program constants                                                       *)
(***************************************************************************)
RETRY_PERIOD == 600
HTTPStatus_OK == 200
ENDPOINT == "ENDPOINT"

\* os.getenv gives None for a variable that is not set
None == "<None>"

HOMEWORK_VERDICTS ==
    [s \in {"approved", "reviewing", "rejected"} |->
        CASE s = "approved" -> "Work checked: the reviewer liked everything. Hooray!"
          [] s = "reviewing" -> "Work taken for review by the reviewer."
          [] s = "rejected" -> "Work checked: the reviewer has remarks."]

(***************************************************************************)
(* Texts and exceptions                                                    *)
(***************************************************************************)
Fmt(tmpl, a1, a2) == [pre |-> "", tmpl |-> tmpl, a1 |-> a1, a2 |-> a2, q |-> FALSE]

\* the empty string ""
EmptyText == Fmt("", "", "")

\* An exception is its class name and its message.  Every class raised in the
\* try block of main() (TypeError, KeyError and the project's
\* SendMessageException, GetAPIAnswerException, CheckResponseException,
\* ParseStatusException) is caught by its 'except Exception'.
Exc(type, text) == [type |-> type, text |-> text]
NoExc == Exc("", EmptyText)

\* str(error): the message; a KeyError shows the repr() of its argument
Str(error) ==
    IF error.type = "KeyError" THEN [error.text EXCEPT !.q = TRUE] ELSE error.text

\* outcome of a call: a returned value or a raised exception
Return(value) == [raised |-> FALSE, exc |-> NoExc, value |-> value]
Raise(type, text) == [raised |-> TRUE, exc |-> Exc(type, text), value |-> <<>>]

\* truth value of a Python string
StrTruthy(s) == s # "" /\ s # None

\* 'a and b' for a string a and a boolean b, taken as a condition
StrAndBool(a, b) == IF StrTruthy(a) THEN b ELSE FALSE

\* f"{type(x)}"
TypeReprStr(t) ==
    CASE t = "dict" -> "<class 'dict'>"
      [] t = "list" -> "<class 'list'>"
      [] t = "str" -> "<class 'str'>"
      [] t = "int" -> "<class 'int'>"
      [] OTHER -> "<class 'NoneType'>"

\* f"{n}" for the integers the model uses
IntStr(n) ==
    CASE n = 200 -> "200"
      [] n = 404 -> "404"
      [] n = 500 -> "500"
      [] OTHER -> "<int>"

(***************************************************************************)
(* Python values: [t |-> type name, v |-> content].  A dict is a function  *)
(* from its keys, a list a sequence.                                       *)
(***************************************************************************)
Dict(d) == [t |-> "dict", v |-> d]
List(s) == [t |-> "list", v |-> s]
StrVal(s) == [t |-> "str", v |-> s]
IntVal(n) == [t |-> "int", v |-> n]
NoneVal == [t |-> "NoneType", v |-> None]

\* dicts with keys among DOMAIN vals, each key k with a value of vals[k]
DictsOver(vals) ==
    UNION {{d \in [ks -> UNION {vals[k] : k \in ks}] : \A k \in ks : d[k] \in vals[k]} :
           ks \in SUBSET DOMAIN vals}

\* lists of at most n elements of S
ListsUpTo(S, n) == UNION {[1..k -> S] : k \in 0..n}

(***************************************************************************)
(* check_tokens                                                            *)
(***************************************************************************)
VARIABLES
    environ,            \* the process environment after load_dotenv()
    PRACTICUM_TOKEN,    \* module globals, set at import
    TELEGRAM_TOKEN,
    TELEGRAM_CHAT_ID

\* all([PRACTICUM_TOKEN, TELEGRAM_TOKEN, TELEGRAM_CHAT_ID])
check_tokens ==
    \A x \in {PRACTICUM_TOKEN, TELEGRAM_TOKEN, TELEGRAM_CHAT_ID} : StrTruthy(x)

(***************************************************************************)
(* get_api_answer: net is what the network does with the one request       *)
(***************************************************************************)
\* mutant: a request that fails in transport is repeated once
requests_get_retry(timestamp, net) ==
    IF net.kind = "exception"
    THEN <<[ev |-> "request", text |-> EmptyText, ok |-> TRUE, n |-> timestamp],
           [ev |-> "request", text |-> EmptyText, ok |-> TRUE, n |-> timestamp]>>
    ELSE <<[ev |-> "request", text |-> EmptyText, ok |-> TRUE, n |-> timestamp]>>

\* lines 59-65: the requests that one call sends, each with from_date =
\* timestamp; there is one, whatever the network does with it
requests_get(timestamp, net) ==
    <<[ev |-> "request", text |-> EmptyText, ok |-> TRUE, n |-> timestamp]>>

\* mutant: the status code of the response is not looked at
get_api_answer_any_status(timestamp, net) ==
    IF net.kind = "exception"
    THEN Raise("GetAPIAnswerException",
               Fmt("Error {0} on request to {1}", net.cause, ENDPOINT))
    ELSE IF ~net.json_ok
    THEN Raise("GetAPIAnswerException",
               Fmt("Error converting to Python data types {0}", net.cause, ""))
    ELSE Return(net.body)

get_api_answer(timestamp, net) ==
    IF net.kind = "exception"
    THEN Raise("GetAPIAnswerException",
               Fmt("Error {0} on request to {1}", net.cause, ENDPOINT))
    ELSE IF net.status_code # HTTPStatus_OK
    THEN Raise("GetAPIAnswerException",
               Fmt("Result of the API request: {0}", IntStr(net.status_code), ""))
    ELSE IF ~net.json_ok
    THEN Raise("GetAPIAnswerException",
               Fmt("Error converting to Python data types {0}", net.cause, ""))
    ELSE Return(net.body)

(***************************************************************************)
(* check_response                                                          *)
(***************************************************************************)
\* mutant: the key test reads 'current_date' not in response
check_response_current_date(response) ==
    IF response.t # "dict"
    THEN Raise("TypeError",
               Fmt("Wrong data type, expected: {0}", TypeReprStr(response.t), ""))
    ELSE IF "current_date" \notin DOMAIN response.v
    THEN Raise("CheckResponseException",
               Fmt("API returned an unexpected value, key 'homework' is missing", "", ""))
    ELSE IF "homeworks" \notin DOMAIN response.v
    THEN Raise("KeyError", Fmt("{0}", "homeworks", ""))
    ELSE LET hw_list == response.v["homeworks"] IN
         IF hw_list.t # "list"
         THEN Raise("TypeError",
                    Fmt("API data is not a list: {0}", TypeReprStr(hw_list.t), ""))
         ELSE Return(hw_list.v)

check_response(response) ==
    IF response.t # "dict"
    THEN Raise("TypeError",
               Fmt("Wrong data type, expected: {0}", TypeReprStr(response.t), ""))
    ELSE IF StrAndBool("current_date", "homeworks" \notin DOMAIN response.v)
    THEN Raise("CheckResponseException",
               Fmt("API returned an unexpected value, key 'homework' is missing", "", ""))
    ELSE LET hw_list == response.v["homeworks"] IN
         IF hw_list.t # "list"
         THEN Raise("TypeError",
                    Fmt("API data is not a list: {0}", TypeReprStr(hw_list.t), ""))
         ELSE Return(hw_list.v)

(***************************************************************************)
(* parse_status: homework is a dict with string keys and string values     *)
(***************************************************************************)
\* mutant: the verdict is looked up with .get, an unknown status gives None
parse_status_get(homework) ==
    IF StrAndBool("status", "homework_name" \notin DOMAIN homework)
    THEN Raise("KeyError",
               Fmt("Keys 'homework_name' and 'status' are missing for the check", "", ""))
    ELSE IF "status" \notin DOMAIN homework
    THEN Raise("KeyError", Fmt("{0}", "status", ""))
    ELSE Return(Fmt("Review status of work \"{0}\" changed. {1}",
                    homework["homework_name"],
                    IF homework["status"] \in DOMAIN HOMEWORK_VERDICTS
                    THEN HOMEWORK_VERDICTS[homework["status"]]
                    ELSE "None"))

parse_status(homework) ==
    IF StrAndBool("status", "homework_name" \notin DOMAIN homework)
    THEN Raise("KeyError",
               Fmt("Keys 'homework_name' and 'status' are missing for the check", "", ""))
    ELSE LET homework_name == homework["homework_name"] IN
         IF "status" \notin DOMAIN homework
         THEN Raise("KeyError", Fmt("{0}", "status", ""))
         ELSE LET homework_status == homework["status"] IN
              IF homework_status \in DOMAIN HOMEWORK_VERDICTS
              THEN Return(Fmt("Review status of work \"{0}\" changed. {1}",
                              homework_name, HOMEWORK_VERDICTS[homework_status]))
              ELSE Raise("ParseStatusException",
                         Fmt("Unknown homework status \"{0}\"", homework_status, ""))

\* the keys that the text of a KeyError raised by parse_status names
KeysNamed(exc) ==
    IF exc.text.tmpl = "{0}" THEN {exc.text.a1} ELSE {"homework_name", "status"}

(***************************************************************************)
(* send_message: tg is what the Telegram client does with the message      *)
(***************************************************************************)
send_message(message, tg) ==
    IF tg = "ok"
    THEN Return(message)
    ELSE Raise("SendMessageException", Fmt("{0}", tg, ""))

\* f"Program failure: {error}"
Diagnostic(error) == [Str(error) EXCEPT !.pre = "Program failure: "]

(***************************************************************************)
(* Inputs                                                                  *)
(***************************************************************************)
EnvNames == {"PRACTICUM_TOKEN", "TELEGRAM_TOKEN", "TELEGRAM_CHAT_ID"}
\* a variable is not set, set to the empty string, or set to a value
TokenValues == {None, "", "token"}

HomeworkNames == {"hw1", "hw2"}
StatusValues == {"approved", "reviewing", "rejected", "pending"}
HomeworkVals ==
    [k \in {"homework_name", "status"} |->
        IF k = "homework_name" THEN HomeworkNames ELSE StatusValues]
\* work-items: each of the two fields present or absent
Homeworks == DictsOver(HomeworkVals)

CurrentDates == {IntVal(2000)}
PayloadVals ==
    [k \in {"homeworks", "current_date"} |->
        IF k = "current_date"
        THEN CurrentDates
        ELSE {StrVal("text"), IntVal(7), NoneVal}
             \cup {List(l) : l \in ListsUpTo(Homeworks, MaxItems)}]
\* parsed bodies: values that are no mapping, and mappings with or without
\* "homeworks" and "current_date"
Payloads ==
    {List(<<>>), StrVal("text"), NoneVal}
    \cup {Dict(d) : d \in DictsOver(PayloadVals)}

Homework(name, status) ==
    [k \in {"homework_name", "status"} |-> IF k = "homework_name" THEN name ELSE status]
Body(hw) ==
    Dict([k \in {"homeworks", "current_date"} |->
            IF k = "homeworks" THEN hw ELSE IntVal(2000)])
\* the bodies the server sends in the runs of the main loop
LoopPayloads ==
    {NoneVal,
     Dict([k \in {"current_date"} |-> IntVal(2000)]),
     Body(StrVal("text")),
     Body(List(<<>>)),
     Body(List(<<Homework("hw1", "approved")>>)),
     Body(List(<<Homework("hw1", "rejected")>>)),
     Body(List(<<Homework("hw1", "rejected"), Homework("hw2", "approved")>>)),
     Body(List(<<Homework("hw1", "pending")>>)),
     Body(List(<<[k \in {"status"} |-> "approved"]>>)),
     Body(List(<<[k \in {"homework_name"} |-> "hw1"]>>))}

Net(kind, cause, status_code, json_ok, body) ==
    [kind |-> kind, cause |-> cause, status_code |-> status_code,
     json_ok |-> json_ok, body |-> body]
\* what the network can do with a request: fail, answer with an error code,
\* answer with a body that is no JSON, answer with a parsed body
NetOutcomes ==
    {Net("exception", "ConnectionError", 0, FALSE, NoneVal),
     Net("response", "", 500, FALSE, NoneVal),
     Net("response", "Expecting value", HTTPStatus_OK, FALSE, NoneVal)}
    \cup {Net("response", "", HTTPStatus_OK, TRUE, b) : b \in LoopPayloads}

\* what the Telegram client can do with a message
TelegramOutcomes == {"ok", "Timed out"}

StartTimes == {1000}

(***************************************************************************)
(* State of main()                                                         *)
(***************************************************************************)
VARIABLES
    pc,               \* position of main()
    tokens_ok,        \* value of check_tokens() at line 116
    timestamp,        \* locals of main()
    current_status,
    current_error,
    response,
    homework,
    homework_status,
    error,
    propagating,      \* exception leaving the except block, pending in finally
    chat,             \* messages delivered to the chat
    clock,            \* time.time()
    cycle,            \* number of cycles started
    trace,            \* what the current cycle did, in order
    prev_trace,       \* what the cycle before it did
    call              \* a single call of a function (FnSpec)

vars ==
    <<environ, PRACTICUM_TOKEN, TELEGRAM_TOKEN, TELEGRAM_CHAT_ID, pc, tokens_ok,
      timestamp, current_status, current_error, response, homework,
      homework_status, error, propagating, chat, clock, cycle, trace,
      prev_trace, call>>

globals == <<environ, PRACTICUM_TOKEN, TELEGRAM_TOKEN, TELEGRAM_CHAT_ID>>
locals == <<response, homework, homework_status, error>>

Ev(ev, text, ok, n) == [ev |-> ev, text |-> text, ok |-> ok, n |-> n]
NoCall == [fn |-> "", arg |-> NoneVal, done |-> TRUE, res |-> Return(<<>>)]

getenv(name) == environ[name]

\* lines 17-19 and the start of the process
Import ==
    /\ environ \in [EnvNames -> TokenValues]
    /\ PRACTICUM_TOKEN = getenv("PRACTICUM_TOKEN")
    /\ TELEGRAM_TOKEN = getenv("TELEGRAM_TOKEN")
    /\ TELEGRAM_CHAT_ID = getenv("PRACTICUM_TOKEN")
    /\ pc = "start"
    /\ tokens_ok = "not called"
    /\ timestamp = 0
    /\ current_status = EmptyText
    /\ current_error = EmptyText
    /\ response = NoneVal
    /\ homework = <<>>
    /\ homework_status = EmptyText
    /\ error = NoExc
    /\ propagating = NoExc
    /\ chat = {}
    /\ clock \in StartTimes
    /\ cycle = 0
    /\ trace = <<>>
    /\ prev_trace = <<>>

Init == Import /\ call = NoCall

\* lines 116-124
Start ==
    /\ pc = "start"
    /\ tokens_ok' = IF check_tokens THEN "True" ELSE "False"
    /\ IF ~check_tokens
       THEN /\ pc' = "exited"
            /\ UNCHANGED <<timestamp, current_status, current_error>>
       ELSE /\ pc' = "fetch"
            /\ timestamp' = clock
            /\ current_status' = EmptyText
            /\ current_error' = EmptyText
    /\ UNCHANGED <<globals, locals, propagating, chat, clock, cycle, trace,
                   prev_trace, call>>

\* line 128: one request, answered by the network with net
Fetch ==
    /\ pc = "fetch"
    /\ cycle < MaxCycles
    /\ \E net \in NetOutcomes :
          LET r == get_api_answer(timestamp, net) IN
          /\ IF r.raised
             THEN error' = r.exc /\ pc' = "except" /\ UNCHANGED response
             ELSE response' = r.value /\ pc' = "validate" /\ UNCHANGED error
          /\ trace' = requests_get(timestamp, net)
    /\ cycle' = cycle + 1
    /\ prev_trace' = trace
    /\ UNCHANGED <<globals, tokens_ok, timestamp, current_status, current_error,
                   homework, homework_status, propagating, chat, clock, call>>

\* mutant: after a valid response the cursor moves to the server's current_date
Validate_AdvanceCursor ==
    /\ pc = "validate"
    /\ LET r == check_response(response) IN
       IF r.raised
       THEN error' = r.exc /\ pc' = "except" /\ UNCHANGED <<homework, timestamp>>
       ELSE /\ homework' = r.value
            /\ pc' = "parse"
            /\ timestamp' = IF "current_date" \in DOMAIN response.v
                            THEN response.v["current_date"].v
                            ELSE timestamp
            /\ UNCHANGED error
    /\ UNCHANGED <<globals, tokens_ok, current_status, current_error,
                   response, homework_status, propagating, chat, clock, cycle,
                   trace, prev_trace, call>>

\* line 129
Validate ==
    /\ pc = "validate"
    /\ LET r == check_response(response) IN
       IF r.raised
       THEN error' = r.exc /\ pc' = "except" /\ UNCHANGED homework
       ELSE homework' = r.value /\ pc' = "parse" /\ UNCHANGED error
    /\ UNCHANGED <<globals, tokens_ok, timestamp, current_status, current_error,
                   response, homework_status, propagating, chat, clock, cycle,
                   trace, prev_trace, call>>

\* mutant: no test for an empty list, homework[0] raises IndexError
Parse_NoEmptyCheck ==
    /\ pc = "parse"
    /\ LET r == IF Len(homework) = 0
                THEN Raise("IndexError", Fmt("list index out of range", "", ""))
                ELSE parse_status(homework[1])
       IN
       IF r.raised
       THEN error' = r.exc /\ pc' = "except" /\ UNCHANGED <<homework_status, trace>>
       ELSE /\ homework_status' = r.value
            /\ trace' = Append(trace, Ev("extracted", r.value, TRUE, 0))
            /\ pc' = "compare"
            /\ UNCHANGED error
    /\ UNCHANGED <<globals, tokens_ok, timestamp, current_status, current_error,
                   response, homework, propagating, chat, clock, cycle,
                   prev_trace, call>>

\* mutant: a work item whose status cannot be extracted is not a failure, the
\* cycle goes on to the comparison with a placeholder text
Parse_DefaultOnError ==
    /\ pc = "parse"
    /\ IF Len(homework) = 0
       THEN /\ trace' = Append(trace, Ev("info", Fmt("Status not updated", "", ""), TRUE, 0))
            /\ pc' = "finally"
            /\ UNCHANGED <<homework_status, error>>
       ELSE LET r == parse_status(homework[1])
                text == IF r.raised THEN Fmt("Status unknown", "", "") ELSE r.value
            IN
            /\ homework_status' = text
            /\ trace' = Append(trace, Ev("extracted", text, TRUE, 0))
            /\ pc' = "compare"
            /\ UNCHANGED error
    /\ UNCHANGED <<globals, tokens_ok, timestamp, current_status, current_error,
                   response, homework, propagating, chat, clock, cycle,
                   prev_trace, call>>

\* lines 130-133
Parse ==
    /\ pc = "parse"
    /\ IF Len(homework) = 0
       THEN /\ trace' = Append(trace, Ev("info", Fmt("Status not updated", "", ""), TRUE, 0))
            /\ pc' = "finally"
            /\ UNCHANGED <<homework_status, error>>
       ELSE LET r == parse_status(homework[1]) IN
            IF r.raised
            THEN error' = r.exc /\ pc' = "except" /\ UNCHANGED <<homework_status, trace>>
            ELSE /\ homework_status' = r.value
                 /\ trace' = Append(trace, Ev("extracted", r.value, TRUE, 0))
                 /\ pc' = "compare"
                 /\ UNCHANGED error
    /\ UNCHANGED <<globals, tokens_ok, timestamp, current_status, current_error,
                   response, homework, propagating, chat, clock, cycle,
                   prev_trace, call>>

\* mutant: the status is sent without comparing it with current_status
Compare_NoDedup ==
    /\ pc = "compare"
    /\ current_status' = homework_status
    /\ \E tg \in TelegramOutcomes :
          LET r == send_message(homework_status, tg) IN
          /\ trace' = Append(trace, Ev("send_status", homework_status, ~r.raised, 0))
          /\ IF r.raised
             THEN error' = r.exc /\ pc' = "except" /\ UNCHANGED chat
             ELSE chat' = chat \cup {r.value} /\ pc' = "finally" /\ UNCHANGED error
    /\ UNCHANGED <<globals, tokens_ok, timestamp, current_error, response, homework,
                   homework_status, propagating, clock, cycle, prev_trace, call>>

\* mutant: a failure follows the delivery of the status (the message is in the
\* chat and the cycle still goes to the except block)
Compare_RaiseAfterSend ==
    /\ pc = "compare"
    /\ IF current_status = homework_status
       THEN /\ trace' = Append(trace, Ev("info", homework_status, TRUE, 0))
            /\ pc' = "finally"
            /\ UNCHANGED <<current_status, error, chat>>
       ELSE /\ current_status' = homework_status
            /\ \E tg \in TelegramOutcomes :
                  LET r == send_message(homework_status, tg) IN
                  /\ trace' = Append(trace, Ev("send_status", homework_status, ~r.raised, 0))
                  /\ pc' = "except"
                  /\ IF r.raised
                     THEN error' = r.exc /\ UNCHANGED chat
                     ELSE /\ chat' = chat \cup {r.value}
                          /\ error' = Exc("SendMessageException", Fmt("{0}", "Timed out", ""))
    /\ UNCHANGED <<globals, tokens_ok, timestamp, current_error, response, homework,
                   homework_status, propagating, clock, cycle, prev_trace, call>>

\* lines 134-138
Compare ==
    /\ pc = "compare"
    /\ IF current_status = homework_status
       THEN /\ trace' = Append(trace, Ev("info", homework_status, TRUE, 0))
            /\ pc' = "finally"
            /\ UNCHANGED <<current_status, error, chat>>
       ELSE /\ current_status' = homework_status
            /\ \E tg \in TelegramOutcomes :
                  LET r == send_message(homework_status, tg) IN
                  /\ trace' = Append(trace, Ev("send_status", homework_status, ~r.raised, 0))
                  /\ IF r.raised
                     THEN error' = r.exc /\ pc' = "except" /\ UNCHANGED chat
                     ELSE chat' = chat \cup {r.value} /\ pc' = "finally" /\ UNCHANGED error
    /\ UNCHANGED <<globals, tokens_ok, timestamp, current_error, response, homework,
                   homework_status, propagating, clock, cycle, prev_trace, call>>

\* mutant: the diagnostic is sent without comparing it with current_error
Except_NoDedup ==
    /\ pc = "except"
    /\ LET message == Diagnostic(error)
           caught == Append(trace, Ev("error", Str(error), TRUE, 0))
       IN
       /\ current_error' = Str(error)
       /\ \E tg \in TelegramOutcomes :
             LET r == send_message(message, tg) IN
             /\ trace' = Append(caught, Ev("send_error", message, ~r.raised, 0))
             /\ IF r.raised
                THEN propagating' = r.exc /\ UNCHANGED chat
                ELSE chat' = chat \cup {r.value} /\ UNCHANGED propagating
    /\ pc' = "finally"
    /\ UNCHANGED <<globals, tokens_ok, timestamp, current_status, locals, clock,
                   cycle, prev_trace, call>>

\* mutant: a caught failure also forgets the last notified status
Except_ClearStatus ==
    /\ pc = "except"
    /\ LET message == Diagnostic(error)
           caught == Append(trace, Ev("error", Str(error), TRUE, 0))
       IN
       IF current_error # Str(error)
       THEN /\ current_error' = Str(error)
            /\ \E tg \in TelegramOutcomes :
                  LET r == send_message(message, tg) IN
                  /\ trace' = Append(caught, Ev("send_error", message, ~r.raised, 0))
                  /\ IF r.raised
                     THEN propagating' = r.exc /\ UNCHANGED chat
                     ELSE chat' = chat \cup {r.value} /\ UNCHANGED propagating
       ELSE /\ trace' = caught
            /\ UNCHANGED <<current_error, propagating, chat>>
    /\ current_status' = EmptyText
    /\ pc' = "finally"
    /\ UNCHANGED <<globals, tokens_ok, timestamp, locals, clock,
                   cycle, prev_trace, call>>

\* lines 139-144; an exception raised here is not caught, it is pending while
\* the finally block runs
Except ==
    /\ pc = "except"
    /\ LET message == Diagnostic(error)
           caught == Append(trace, Ev("error", Str(error), TRUE, 0))
       IN
       IF current_error # Str(error)
       THEN /\ current_error' = Str(error)
            /\ \E tg \in TelegramOutcomes :
                  LET r == send_message(message, tg) IN
                  /\ trace' = Append(caught, Ev("send_error", message, ~r.raised, 0))
                  /\ IF r.raised
                     THEN propagating' = r.exc /\ UNCHANGED chat
                     ELSE chat' = chat \cup {r.value} /\ UNCHANGED propagating
       ELSE /\ trace' = caught
            /\ UNCHANGED <<current_error, propagating, chat>>
    /\ pc' = "finally"
    /\ UNCHANGED <<globals, tokens_ok, timestamp, current_status, locals, clock,
                   cycle, prev_trace, call>>

\* mutant: the sleep is the last statement of the loop body instead of a
\* finally block, so an exception leaving the except block skips it
Finally_SleepAfterTry ==
    /\ pc = "finally"
    /\ IF propagating # NoExc
       THEN pc' = "crashed" /\ UNCHANGED <<clock, trace>>
       ELSE /\ pc' = "fetch"
            /\ clock' = clock + RETRY_PERIOD
            /\ trace' = Append(trace, Ev("sleep", EmptyText, TRUE, RETRY_PERIOD))
    /\ response' = NoneVal
    /\ homework' = <<>>
    /\ homework_status' = EmptyText
    /\ error' = NoExc
    /\ UNCHANGED <<globals, tokens_ok, timestamp, current_status, current_error,
                   propagating, chat, cycle, prev_trace, call>>

\* mutant: a cycle that caught no failure forgets the last notified error
Finally_ClearError ==
    /\ pc = "finally"
    /\ clock' = clock + RETRY_PERIOD
    /\ trace' = Append(trace, Ev("sleep", EmptyText, TRUE, RETRY_PERIOD))
    /\ pc' = IF propagating # NoExc THEN "crashed" ELSE "fetch"
    /\ current_error' = IF \A i \in 1..Len(trace) : trace[i].ev # "error"
                        THEN EmptyText
                        ELSE current_error
    /\ response' = NoneVal
    /\ homework' = <<>>
    /\ homework_status' = EmptyText
    /\ error' = NoExc
    /\ UNCHANGED <<globals, tokens_ok, timestamp, current_status,
                   propagating, chat, cycle, prev_trace, call>>

\* lines 145-146, then the loop goes on or the pending exception leaves main().
\* The locals of the finished cycle are dead (each is assigned before it is
\* read again) and are reset.
Finally ==
    /\ pc = "finally"
    /\ clock' = clock + RETRY_PERIOD
    /\ trace' = Append(trace, Ev("sleep", EmptyText, TRUE, RETRY_PERIOD))
    /\ pc' = IF propagating # NoExc THEN "crashed" ELSE "fetch"
    /\ response' = NoneVal
    /\ homework' = <<>>
    /\ homework_status' = EmptyText
    /\ error' = NoExc
    /\ UNCHANGED <<globals, tokens_ok, timestamp, current_status, current_error,
                   propagating, chat, cycle, prev_trace, call>>

Next == Start \/ Fetch \/ Validate \/ Parse \/ Compare \/ Except \/ Finally

Spec == Init /\ [][Next]_vars

(***************************************************************************)
(* FnSpec: one call of check_response or parse_status on each input        *)
(***************************************************************************)
\* what the network can do with the request of a single get_api_answer call:
\* two transport failures, and responses of three status codes whose body
\* parses or not
FnNetOutcomes ==
    {Net("exception", c, 0, FALSE, NoneVal) : c \in {"ConnectionError", "ReadTimeout"}}
    \cup {Net("response", IF ok THEN "" ELSE "Expecting value", code, ok, b) :
             code \in {HTTPStatus_OK, 404, 500}, ok \in BOOLEAN,
             b \in LoopPayloads \cup {List(<<>>), StrVal("text")}}

FnCalls ==
    {[fn |-> "check_response", arg |-> p, done |-> FALSE, res |-> Return(<<>>)] :
        p \in Payloads}
    \cup {[fn |-> "parse_status", arg |-> h, done |-> FALSE, res |-> Return(<<>>)] :
        h \in Homeworks}
    \cup {[fn |-> "get_api_answer", arg |-> [timestamp |-> t, net |-> n],
           done |-> FALSE, res |-> Return(<<>>)] :
        t \in StartTimes, n \in FnNetOutcomes}

FnInit ==
    /\ Import
    /\ environ = [n \in EnvNames |-> "token"]
    /\ call \in FnCalls

CallCheckResponse ==
    /\ call.fn = "check_response"
    /\ ~call.done
    /\ call' = [call EXCEPT !.done = TRUE, !.res = check_response(call.arg)]
    /\ UNCHANGED <<globals, pc, tokens_ok, timestamp, current_status, current_error,
                   locals, propagating, chat, clock, cycle, trace, prev_trace>>

CallParseStatus ==
    /\ call.fn = "parse_status"
    /\ ~call.done
    /\ call' = [call EXCEPT !.done = TRUE, !.res = parse_status(call.arg)]
    /\ UNCHANGED <<globals, pc, tokens_ok, timestamp, current_status, current_error,
                   locals, propagating, chat, clock, cycle, trace, prev_trace>>

CallGetApiAnswer ==
    /\ call.fn = "get_api_answer"
    /\ ~call.done
    /\ call' = [call EXCEPT !.done = TRUE,
                            !.res = get_api_answer(call.arg.timestamp, call.arg.net)]
    /\ UNCHANGED <<globals, pc, tokens_ok, timestamp, current_status, current_error,
                   locals, propagating, chat, clock, cycle, trace, prev_trace>>

FnNext == CallCheckResponse \/ CallParseStatus \/ CallGetApiAnswer

FnSpec == FnInit /\ [][FnNext]_vars

(***************************************************************************)
(* Reading a cycle's trace                                                 *)
(***************************************************************************)
Events(tr, ev) == SelectSeq(tr, LAMBDA e : e.ev = ev)
Count(tr, ev) == Len(Events(tr, ev))
\* the cycle has run to its end (the sleep is its last step)
CycleDone == trace # <<>> /\ trace[Len(trace)].ev = "sleep"
\* the text the cycle extracted / the text of the failure it caught
\* (EmptyText when it did neither)
Extracted(tr) == IF Count(tr, "extracted") = 0 THEN EmptyText ELSE Events(tr, "extracted")[1].text
Caught(tr) == IF Count(tr, "error") = 0 THEN EmptyText ELSE Events(tr, "error")[1].text
Delivered(tr) ==
    Len(SelectSeq(tr, LAMBDA e : e.ev \in {"send_status", "send_error"} /\ e.ok))
DiagnosticOf(text) == [text EXCEPT !.pre = "Program failure: "]

(***************************************************************************)
(* Claims                                                                  *)
(***************************************************************************)

\* C1: once the credential check has passed, no outcome of a cycle ends the
\* process: main() is never left through an exception, whatever the fetch,
\* validation, extraction and send outcomes are.
C1_NoCycleOutcomeTerminates == tokens_ok = "True" => pc # "crashed"

\* C2: the last-notified status text is empty or a status notification that was
\* delivered, and the last-notified error text is empty or the text of a
\* failure whose diagnostic was delivered.
C2_StateOnlyAfterDelivery ==
    /\ current_status = EmptyText \/ current_status \in chat
    /\ current_error = EmptyText \/ DiagnosticOf(current_error) \in chat

\* C3 (as stated): in a cycle that extracted a text, a status notification is
\* sent iff the text differs from the last-notified status text, and every run
\* of consecutive cycles extracting the same text sends exactly one status
\* notification: its first cycle sends one, each later cycle none.
C3_ExactlyOnePerRun ==
    /\ [][pc = "compare" =>
            (Count(trace', "send_status") = 1 <=> homework_status # current_status)]_vars
    /\ [](CycleDone /\ Extracted(trace) # EmptyText =>
            Count(trace, "send_status") =
                IF Extracted(prev_trace) = Extracted(trace) THEN 0 ELSE 1)

\* C3 (amended): in a cycle that extracted a text, a status notification is sent
\* iff the text differs from the last-notified status text; of two consecutive
\* cycles extracting the same text the second sends nothing and only logs the
\* text, and the two together send at most one status notification.
C3_StatusDeduplication ==
    /\ [][pc = "compare" =>
            (Count(trace', "send_status") = 1 <=> homework_status # current_status)]_vars
    /\ [](CycleDone /\ Extracted(trace) # EmptyText
              /\ Extracted(prev_trace) = Extracted(trace) =>
            /\ Count(trace, "send_status") = 0
            /\ Count(trace, "send_error") = 0
            /\ Count(trace, "error") = 0
            /\ Events(trace, "info") = <<Ev("info", Extracted(trace), TRUE, 0)>>
            /\ Count(prev_trace, "send_status") <= 1)

\* C3 witness: two consecutive cycles extracted the same text, the first sent
\* it and the second did not.
C3_Witness ==
    /\ CycleDone
    /\ Extracted(trace) # EmptyText
    /\ Extracted(prev_trace) = Extracted(trace)
    /\ Count(prev_trace, "send_status") = 1
    /\ Count(trace, "send_status") = 0

\* C4 (as stated): in a failed cycle the diagnostic is sent iff the failure's
\* text differs from the last-notified error text, and consecutive cycles
\* raising the same text send exactly one diagnostic between them: a failed
\* cycle sends one unless the cycle before it raised the same text, and then
\* none (so a cycle raising a different text sends exactly one more).
C4_ExactlyOnePerPair ==
    /\ [][pc = "except" =>
            (Count(trace', "send_error") = 1 <=> Str(error) # current_error)]_vars
    /\ [](CycleDone /\ Caught(trace) # EmptyText =>
            Count(trace, "send_error") =
                IF Caught(prev_trace) = Caught(trace) THEN 0 ELSE 1)

\* C4 (amended): in a failed cycle the diagnostic is sent iff the failure's text
\* differs from the last-notified error text; of two consecutive cycles raising
\* the same text the second sends nothing and the two together send at most
\* one diagnostic; a cycle that follows a failed cycle with a different text
\* sends exactly one.
C4_ErrorDeduplication ==
    /\ [][pc = "except" =>
            (Count(trace', "send_error") = 1 <=> Str(error) # current_error)]_vars
    /\ [](CycleDone /\ Caught(trace) # EmptyText /\ Caught(prev_trace) = Caught(trace) =>
            /\ Count(trace, "send_error") = 0
            /\ Count(prev_trace, "send_error") <= 1)
    /\ [](CycleDone /\ Caught(trace) # EmptyText /\ Caught(prev_trace) # EmptyText
              /\ Caught(prev_trace) # Caught(trace) =>
            Count(trace, "send_error") = 1)

\* C4 witness: two consecutive cycles raised the same text, the first sent its
\* diagnostic and the second did not.
C4_Witness ==
    /\ CycleDone
    /\ Caught(trace) # EmptyText
    /\ Caught(prev_trace) = Caught(trace)
    /\ Count(prev_trace, "send_error") = 1
    /\ Count(trace, "send_error") = 0

\* C5: check_tokens returns true iff all three configured credentials
\* (PRACTICUM_TOKEN, TELEGRAM_TOKEN, TELEGRAM_CHAT_ID of the environment) are
\* present and non-empty.
C5_CheckTokensIffAllPresent ==
    tokens_ok # "not called" =>
        (tokens_ok = "True" <=> \A n \in EnvNames : StrTruthy(environ[n]))

\* C6: a failed credential check ends main() before any fetch and any send,
\* nothing is fetched or sent unless the check returned true, and the failed
\* check is the only way main() ends.
C6_CredentialFailureOnlyTerminal ==
    /\ tokens_ok = "False" => pc = "exited" /\ cycle = 0 /\ trace = <<>> /\ chat = {}
    /\ (cycle > 0 \/ trace # <<>> \/ chat # {}) => tokens_ok = "True"
    /\ pc \in {"exited", "crashed"} => tokens_ok = "False"

\* the response of the current cycle is a mapping whose "homeworks" is []
EmptyHomeworks ==
    /\ response.t = "dict"
    /\ "homeworks" \in DOMAIN response.v
    /\ response.v["homeworks"].t = "list"
    /\ response.v["homeworks"].v = <<>>

\* C7: a cycle whose response is valid with an empty "homeworks" list raises
\* nothing, sends nothing, leaves current_status and current_error as they
\* were, logs one line and goes to sleep.
C7_EmptyListCycle ==
    /\ [](EmptyHomeworks =>
            /\ pc \in {"validate", "parse", "finally"}
            /\ Count(trace, "send_status") + Count(trace, "send_error") = 0
            /\ Count(trace, "error") = 0
            /\ error = NoExc
            /\ propagating = NoExc)
    /\ [][EmptyHomeworks =>
            /\ current_status' = current_status
            /\ current_error' = current_error
            /\ chat' = chat
            /\ pc' \in {"parse", "finally", "fetch"}
            /\ pc = "finally" =>
                 trace' = <<Ev("request", EmptyText, TRUE, timestamp),
                            Ev("info", Fmt("Status not updated", "", ""), TRUE, 0),
                            Ev("sleep", EmptyText, TRUE, RETRY_PERIOD)>>]_vars

\* C7 witness: such a cycle is about to sleep, with a status and an error
\* remembered from earlier cycles.
C7_Witness ==
    /\ EmptyHomeworks
    /\ pc = "finally"
    /\ current_status # EmptyText
    /\ current_error # EmptyText

\* C8: every cycle passes through exactly one sleep of RETRY_PERIOD seconds, as
\* its last step, whether it succeeded, failed or failed while sending; a
\* cycle issues its one request only after the sleep of the cycle before it.
C8_SleepUnconditional ==
    /\ [](pc \in {"fetch", "crashed"} /\ cycle > 0 =>
            /\ CycleDone
            /\ Events(trace, "sleep") = <<Ev("sleep", EmptyText, TRUE, RETRY_PERIOD)>>)
    /\ [](pc \in {"validate", "parse", "compare", "except", "finally"} =>
            /\ Count(trace, "sleep") = 0
            /\ Count(trace, "request") = 1
            /\ ENABLED Next)
    /\ [](pc = "fetch" => clock = timestamp + cycle * RETRY_PERIOD)
    /\ [][Count(trace', "request") = 1 /\ trace' # trace /\ Len(trace') = 1 =>
            cycle = 0 \/ CycleDone]_vars

\* C8 witness: a cycle that failed while sending the diagnostic has slept
\* before the exception left main().
C8_Witness ==
    /\ pc = "crashed"
    /\ Count(trace, "send_error") = 1
    /\ Events(trace, "sleep") = <<Ev("sleep", EmptyText, TRUE, RETRY_PERIOD)>>

\* C9: check_response fails with a TypeError on a payload that is no mapping,
\* with CheckResponseException on a mapping without "homeworks" (with or
\* without "current_date"), with a TypeError on a "homeworks" that is no list,
\* and else returns the list as it is.
C9_CheckResponseClassifies ==
    call.fn = "check_response" /\ call.done =>
        LET p == call.arg
            r == call.res
        IN  IF p.t # "dict"
            THEN r.raised /\ r.exc.type = "TypeError"
            ELSE IF "homeworks" \notin DOMAIN p.v
            THEN r.raised /\ r.exc.type = "CheckResponseException"
            ELSE IF p.v["homeworks"].t # "list"
            THEN r.raised /\ r.exc.type = "TypeError"
            ELSE ~r.raised /\ r.value = p.v["homeworks"].v

\* C9 witness: a mapping with neither "homeworks" nor "current_date" was
\* rejected with the structural error.
C9_Witness ==
    /\ call.fn = "check_response"
    /\ call.done
    /\ call.arg.t = "dict"
    /\ DOMAIN call.arg.v = {}
    /\ call.res.raised
    /\ call.res.exc.type = "CheckResponseException"

\* C10: parse_status fails with a KeyError when the name or the status is
\* absent, and the error's text names only keys that are absent.
C10_MissingKeyNamed ==
    call.fn = "parse_status" /\ call.done =>
        LET missing == {"homework_name", "status"} \ DOMAIN call.arg
            r == call.res
        IN  missing # {} =>
                /\ r.raised
                /\ r.exc.type = "KeyError"
                /\ KeysNamed(r.exc) # {}
                /\ KeysNamed(r.exc) \subseteq missing

\* C11: for a work-item with a name and a status, parse_status returns the
\* text built from the name and the verdict of the status iff the status is
\* approved, reviewing or rejected; for any other status it raises
\* ParseStatusException whose text carries that status, and returns no text.
C11_VerdictIffKnownStatus ==
    call.fn = "parse_status" /\ call.done
        /\ DOMAIN call.arg = {"homework_name", "status"} =>
        LET h == call.arg
            r == call.res
        IN  IF h["status"] \in {"approved", "reviewing", "rejected"}
            THEN /\ ~r.raised
                 /\ r.value.a1 = h["homework_name"]
                 /\ r.value.a2 = HOMEWORK_VERDICTS[h["status"]]
                 /\ r.value = Fmt("Review status of work \"{0}\" changed. {1}",
                                  r.value.a1, r.value.a2)
            ELSE /\ r.raised
                 /\ r.exc.type = "ParseStatusException"
                 /\ r.exc.text = Fmt("Unknown homework status \"{0}\"", h["status"], "")

\* C11 witness: the status "pending" was refused with the error carrying it.
C11_Witness ==
    /\ call.fn = "parse_status"
    /\ call.done
    /\ DOMAIN call.arg = {"homework_name", "status"}
    /\ call.arg["status"] = "pending"
    /\ call.res.raised
    /\ call.res.exc.text.a1 = "pending"

\* C12: get_api_answer raises GetAPIAnswerException, and nothing else, on a
\* transport failure, on a status code other than 200 (the text carrying the
\* code) and on a body that does not parse; only a 200 response with a body
\* that parses returns, and it returns the parsed body whatever its shape.
C12_FetchErrorOrPayload ==
    call.fn = "get_api_answer" /\ call.done =>
        LET net == call.arg.net
            r == call.res
            success == net.kind = "response" /\ net.status_code = 200 /\ net.json_ok
        IN  /\ success => ~r.raised /\ r.value = net.body
            /\ ~success => r.raised /\ r.exc.type = "GetAPIAnswerException"
            /\ net.kind = "response" /\ net.status_code # 200 =>
                 <<net.status_code, r.exc.text.a1>> \in {<<404, "404">>, <<500, "500">>}

\* C12 witness: a 404 response whose body parses was refused with the error
\* carrying 404.
C12_Witness ==
    /\ call.fn = "get_api_answer"
    /\ call.done
    /\ call.arg.net.kind = "response"
    /\ call.arg.net.status_code = 404
    /\ call.arg.net.json_ok
    /\ call.res.raised
    /\ call.res.exc.type = "GetAPIAnswerException"
    /\ call.res.exc.text.a1 = "404"

\* C13: a cycle sends exactly one HTTP request, as its first step, also when
\* the fetch fails; the next request is sent only by the next cycle, after the
\* sleep that ends this one.
C13_OneRequestPerCycle ==
    /\ [](cycle > 0 =>
            /\ Count(trace, "request") = 1
            /\ trace[1].ev = "request")
    /\ [][Count(trace', "request") > 0 /\ trace' # trace /\ trace'[Len(trace')].ev = "request" =>
            /\ pc = "fetch"
            /\ cycle = 0 \/ CycleDone
            /\ cycle' = cycle + 1]_vars
    /\ [](cycle > 1 => Count(prev_trace, "request") = 1 /\ Count(prev_trace, "sleep") = 1)

\* C13 witness: two cycles in a row failed in the fetch, each with one request
\* and with the sleep of the first between them.
C13_Witness ==
    /\ CycleDone
    /\ Count(prev_trace, "request") = 1
    /\ Count(prev_trace, "extracted") = 0
    /\ Caught(prev_trace).tmpl = "Error {0} on request to {1}"
    /\ Caught(trace).tmpl = "Error {0} on request to {1}"
    /\ Count(trace, "request") = 1

\* C14: the cursor is the time at which main() started and never changes:
\* every request of every cycle carries it as from_date, after a success and
\* after a failure alike, whatever current_date the server sent.
C14_CursorNeverAdvances ==
    /\ [](pc \notin {"start", "exited"} => timestamp \in StartTimes)
    /\ [](cycle > 0 => trace[1].ev = "request" /\ trace[1].n = timestamp)
    /\ [](cycle > 1 => prev_trace[1].ev = "request" /\ prev_trace[1].n = trace[1].n)
    /\ [][pc # "start" => timestamp' = timestamp]_vars

\* C14 witness: the third cycle, after a cycle that got a valid response with
\* a current_date other than the cursor, sent the cursor of the first request.
C14_Witness ==
    /\ cycle = 3
    /\ Extracted(prev_trace) # EmptyText
    /\ pc = "validate"
    /\ response.t = "dict"
    /\ "current_date" \in DOMAIN response.v
    /\ response.v["current_date"].v # timestamp
    /\ trace[1].n = prev_trace[1].n

\* C15: the steps of a cycle run in the order fetch, validate, extract,
\* compare, notify, and a failure at a step skips the later ones.  A status
\* notification is sent only after the request, and the extraction of that
\* very text, of the same cycle, from a response that check_response accepts
\* and a first item that parse_status accepts; a cycle that failed in fetch,
\* validation or extraction extracted nothing, sent no status and made at most
\* one send, that of the diagnostic of its failure.
C15_StepsInOrder ==
    /\ [][/\ pc = "fetch" => pc' \in {"validate", "except"}
          /\ pc = "validate" => pc' \in {"parse", "except"}
          /\ pc = "parse" => pc' \in {"compare", "finally", "except"}
          /\ pc = "compare" => pc' \in {"finally", "except"}
          /\ pc = "except" => pc' = "finally"
          /\ pc = "finally" => pc' \in {"fetch", "crashed"}]_vars
    /\ [](Count(trace, "send_status") > 0 =>
            /\ Count(trace, "send_status") = 1
            /\ Len(trace) >= 3
            /\ trace[1].ev = "request"
            /\ trace[2].ev = "extracted"
            /\ trace[3].ev = "send_status"
            /\ trace[3].text = trace[2].text
            /\ pc \in {"except", "finally"} =>
                  /\ ~check_response(response).raised
                  /\ homework = check_response(response).value
                  /\ Len(homework) > 0
                  /\ ~parse_status(homework[1]).raised
                  /\ parse_status(homework[1]).value = trace[3].text)
    /\ [](error # NoExc /\ error.type # "SendMessageException" =>
            /\ Count(trace, "extracted") = 0
            /\ Count(trace, "send_status") = 0
            /\ Count(trace, "send_error") <= 1
            /\ \A i \in 1..Len(trace) :
                  trace[i].ev = "send_error" => trace[i].text = Diagnostic(error))
    /\ [](Count(trace, "error") > 0 /\ Count(trace, "extracted") = 0 =>
            /\ Count(trace, "send_status") = 0
            /\ Count(trace, "send_error") <= 1
            /\ Delivered(trace) <= 1)

\* C15 witness: after a cycle that sent a status notification, a cycle failed
\* in the extraction and made one send, that of its diagnostic.
C15_Witness ==
    /\ pc = "finally"
    /\ error.type = "ParseStatusException"
    /\ Count(trace, "send_error") = 1
    /\ Count(trace, "send_status") = 0
    /\ Count(prev_trace, "send_status") = 1

\* the send attempts of a cycle, in order
Sends(tr) == SelectSeq(tr, LAMBDA e : e.ev \in {"send_status", "send_error"})

\* C16: at most one message is delivered to the chat per cycle.  A cycle that
\* delivered a status notification makes no other send; a cycle makes two send
\* attempts only when the first is a status send that failed, the second being
\* the diagnostic of that send failure.
C16_AtMostOneDelivery ==
    /\ Delivered(trace) <= 1
    /\ Delivered(prev_trace) <= 1
    /\ Len(Sends(trace)) <= 2
    /\ \A i \in 1..Len(Sends(trace)) :
          Sends(trace)[i].ev = "send_status" /\ Sends(trace)[i].ok =>
             /\ Len(Sends(trace)) = 1
             /\ Count(trace, "error") = 0
    /\ Len(Sends(trace)) = 2 =>
          /\ Sends(trace)[1].ev = "send_status"
          /\ ~Sends(trace)[1].ok
          /\ Sends(trace)[2].ev = "send_error"
          /\ Caught(trace) = Fmt("{0}", "Timed out", "")
          /\ Sends(trace)[2].text = DiagnosticOf(Caught(trace))

\* C16 witness: the status send of the cycle failed and the diagnostic of
\* that failure, the second send attempt of the cycle, was delivered.
C16_Witness ==
    /\ Len(Sends(trace)) = 2
    /\ ~Sends(trace)[1].ok
    /\ Sends(trace)[2].ok
    /\ Sends(trace)[2].text \in chat
    /\ Sends(trace)[1].text \notin chat

\* C17: a successful cycle does not clear the last notified error text.  Only
\* the except block assigns current_error; a cycle that caught nothing after a
\* cycle that caught E ends with current_error = E; and a failure whose text
\* equals current_error sends nothing, whatever the cycle before it did.
C17_ErrorTextSurvivesSuccess ==
    /\ [][pc \notin {"start", "except"} => current_error' = current_error]_vars
    /\ [][pc = "except" /\ Str(error) = current_error =>
            /\ current_error' = current_error
            /\ Len(Sends(trace')) = Len(Sends(trace))
            /\ chat' = chat]_vars
    /\ [](CycleDone /\ Count(trace, "error") = 0 /\ Caught(prev_trace) # EmptyText =>
            current_error = Caught(prev_trace))
    /\ [](CycleDone /\ Caught(trace) # EmptyText /\ Count(trace, "send_error") = 0 =>
            current_error = Caught(trace))

\* C17 witness: the third cycle failed with the text that is remembered from
\* the first and sent nothing, the second cycle having delivered a status
\* notification and caught no failure.
C17_Witness ==
    /\ cycle = 3
    /\ CycleDone
    /\ Count(prev_trace, "error") = 0
    /\ Count(prev_trace, "send_status") = 1
    /\ Delivered(prev_trace) = 1
    /\ Caught(trace) # EmptyText
    /\ Len(Sends(trace)) = 0
    /\ current_error = Caught(trace)
    /\ DiagnosticOf(Caught(trace)) \in chat

\* C18: a cycle that fails in fetch, validation or extraction leaves the last
\* notified status text unchanged.  Only the comparison assigns
\* current_status; such a failed cycle after a cycle that extracted S ends
\* with current_status = S; and an extracted text equal to current_status is
\* not sent, whatever the cycle before it did.
C18_StatusTextSurvivesFailure ==
    /\ [][pc \notin {"start", "compare"} => current_status' = current_status]_vars
    /\ [][pc = "compare" /\ homework_status = current_status =>
            /\ current_status' = current_status
            /\ Len(Sends(trace')) = Len(Sends(trace))
            /\ chat' = chat]_vars
    /\ [](CycleDone /\ Count(trace, "error") = 1 /\ Count(trace, "extracted") = 0
              /\ Extracted(prev_trace) # EmptyText =>
            current_status = Extracted(prev_trace))
    /\ [](CycleDone /\ Extracted(trace) # EmptyText /\ Count(trace, "send_status") = 0 =>
            current_status = Extracted(trace))

\* C18 witness: the third cycle extracted the text that the first delivered
\* and sent nothing, the second cycle having failed before the extraction.
C18_Witness ==
    /\ cycle = 3
    /\ CycleDone
    /\ Count(prev_trace, "error") = 1
    /\ Count(prev_trace, "extracted") = 0
    /\ Extracted(trace) # EmptyText
    /\ Len(Sends(trace)) = 0
    /\ current_status = Extracted(trace)
    /\ Extracted(trace) \in chat

====
